---- MODULE Spec2Model ----
(***************************************************************************)
(* nik-server: an Express file-hosting backend (register, login, upload,   *)
(* list, download) over a SQLite metadata store and a disk content store.  *)
(* Each HTTP request is a record in `reqs`; a request advances by the      *)
(* steps between its suspension points (multer's file writes, every        *)
(* database statement), and concurrent requests interleave between them.   *)
(***************************************************************************)
EXTENDS Integers, Sequences, FiniteSets, TLC

VARIABLES
    users,      \* rows of table users
    userSeq,    \* sqlite_sequence entry of users (AUTOINCREMENT high-water mark)
    files,      \* rows of table files
    fileSeq,    \* sqlite_sequence entry of files
    disk,       \* the upload directory: storage name -> the stored file
    now,        \* the wall clock read by Date.now() and CURRENT_TIMESTAMP
    reqs        \* the requests received so far, in order of arrival

vars == <<users, userSeq, files, fileSeq, disk, now, reqs>>

(***************************************************************************)
(* Bounds of the model.                                                    *)
(***************************************************************************)
MaxAccountReqs == 3     \* register/login requests per behaviour
MaxUploads == 2         \* upload requests per behaviour
MaxLists == 1           \* list requests per behaviour
MaxDownloads == 1       \* download requests per behaviour
MaxRequests == 3        \* requests per behaviour
MaxInFlight == 2        \* upload/list/download requests in flight at a time
MaxTime == 1            \* the clock runs 0..MaxTime
MaxRandom == 1          \* Math.round(Math.random() * 1E9) drawn from 0..MaxRandom
MaxCreateFileCalls == 2 \* direct calls of Database.createFile per behaviour

(***************************************************************************)
(* Request inputs.  "" is an absent (falsy) field.                         *)
(***************************************************************************)
Usernames == {"", "alice", "bob"}
Emails == {"alice@x.com", "bob@x.com"}
RegisterPasswords == {"pw1"}
LoginUsernames == {"alice"}
LoginPasswords == {"", "pw1", "wrong"}

NoRow == [id |-> 0]     \* undefined: the row db.get yields when nothing matches

(***************************************************************************)
(* crypto.createHash('sha256').update(password).digest('hex'), tabulated   *)
(* on the passwords of the model (the real digests).                       *)
(***************************************************************************)
Sha256(password) ==
    CASE password = "pw1" ->
            "c592df4a86933b92addc9842402ddf198c638ea9be58916ee6e3734e1e3152f8"
      [] password = "wrong" ->
            "8810ad581e59f2bc3928b261707a71308f7e139eb04820366dc4d5c18d980225"
      [] OTHER ->
            "e3b0c44298fc1c149afbf4c8996fb92427ae41e4649b934ca495991b7852b855"

(***************************************************************************)
(* Metadata store: table users.                                            *)
(***************************************************************************)
\* UNIQUE on username and on email: does the new row collide with a row?
UniqueNameOnly(username, email) ==
    \E u \in users : u.username = username

UniqueViolation(username, email) ==
    \E u \in users : u.username = username \/ u.email = email

\* INTEGER PRIMARY KEY AUTOINCREMENT: one more than the largest id ever used
ReuseUserId(seq) == IF seq = 0 THEN 1 ELSE seq

NextUserId(seq) == seq + 1

\* SELECT * FROM users WHERE username = ?
getUserByUsername(username) ==
    IF \E u \in users : u.username = username
    THEN CHOOSE u \in users : u.username = username
    ELSE NoRow

\* SELECT * FROM users WHERE id = ?
getUserByIdAny(id) == [id |-> id]

getUserById(id) ==
    IF \E u \in users : u.id = id
    THEN CHOOSE u \in users : u.id = id
    ELSE NoRow

(***************************************************************************)
(* Requests.  `after` is the set of requests that had been answered when   *)
(* this one arrived (bookkeeping for the real-time order of requests).     *)
(***************************************************************************)
Answered == {i \in 1..Len(reqs) : reqs[i].pc = "done"}

InFlight == {i \in 1..Len(reqs) : reqs[i].pc # "done"}

CountKind(kinds) == Cardinality({i \in 1..Len(reqs) : reqs[i].kind \in kinds})

\* res.status(..).json(..): the request is answered
Answer(req, resp) == [req EXCEPT !.pc = "done", !.resp = resp]

Finish(r, resp) == [reqs EXCEPT ![r] = Answer(@, resp)]

NoResp == [status |-> 0]

(***************************************************************************)
(* POST /api/register                                                      *)
(***************************************************************************)
RegisterReceive ==
    /\ CountKind({"register", "login"}) < MaxAccountReqs
    /\ Len(reqs) < MaxRequests
    /\ \E username \in Usernames, email \in Emails, password \in RegisterPasswords :
         LET req == [kind |-> "register", after |-> Answered,
                     username |-> username, email |-> email, password |-> password,
                     passwordHash |-> "", row |-> NoRow, err |-> ""]
         IN  IF username = "" \/ email = "" \/ password = ""
             THEN reqs' = Append(reqs, req @@
                     [pc |-> "done",
                      resp |-> [status |-> 400,
                                error |-> "Username, email, and password are required"]])
             ELSE reqs' = Append(reqs, [req EXCEPT !.passwordHash = Sha256(password)] @@
                     [pc |-> "createUser", resp |-> NoResp])
    /\ UNCHANGED <<users, userSeq, files, fileSeq, disk, now>>

\* Database.createUser: the INSERT as SQLite executes it, and this.lastID
RegisterInsert(r) ==
    /\ reqs[r].kind = "register" /\ reqs[r].pc = "createUser"
    /\ IF UniqueViolation(reqs[r].username, reqs[r].email)
       THEN /\ reqs' = [reqs EXCEPT ![r] = [@ EXCEPT !.pc = "created",
                           !.err = "SQLITE_CONSTRAINT: UNIQUE constraint failed"]]
            /\ UNCHANGED <<users, userSeq>>
       ELSE LET id == NextUserId(userSeq)
            IN  /\ users' = users \cup {[id |-> id, username |-> reqs[r].username,
                                         email |-> reqs[r].email,
                                         password_hash |-> reqs[r].passwordHash]}
                /\ userSeq' = id
                /\ reqs' = [reqs EXCEPT ![r] = [@ EXCEPT !.pc = "created",
                               !.row = [id |-> id, username |-> reqs[r].username,
                                        email |-> reqs[r].email]]]
    /\ UNCHANGED <<files, fileSeq, disk, now>>

\* the handler after createUser: the created user, or the catch block
RegisterResponse(r) ==
    IF reqs[r].err = ""
    THEN [status |-> 201, id |-> reqs[r].row.id, username |-> reqs[r].row.username,
          email |-> reqs[r].row.email]
    ELSE IF reqs[r].err = "SQLITE_CONSTRAINT: UNIQUE constraint failed"
         THEN [status |-> 400, error |-> "Username or email already exists"]
         ELSE [status |-> 500, error |-> "Registration failed"]

RegisterRespond(r) ==
    /\ reqs[r].kind = "register" /\ reqs[r].pc = "created"
    /\ reqs' = Finish(r, RegisterResponse(r))
    /\ UNCHANGED <<users, userSeq, files, fileSeq, disk, now>>

(***************************************************************************)
(* POST /api/login                                                         *)
(***************************************************************************)
LoginReceive ==
    /\ CountKind({"register", "login"}) < MaxAccountReqs
    /\ Len(reqs) < MaxRequests
    /\ \E username \in LoginUsernames, password \in LoginPasswords :
         LET req == [kind |-> "login", after |-> Answered,
                     username |-> username, password |-> password, row |-> NoRow]
         IN  IF username = "" \/ password = ""
             THEN reqs' = Append(reqs, req @@
                     [pc |-> "done",
                      resp |-> [status |-> 400,
                                error |-> "Username and password are required"]])
             ELSE reqs' = Append(reqs, req @@ [pc |-> "getUser", resp |-> NoResp])
    /\ UNCHANGED <<users, userSeq, files, fileSeq, disk, now>>

\* Database.getUserByUsername: the SELECT as SQLite executes it
LoginLookup(r) ==
    /\ reqs[r].kind = "login" /\ reqs[r].pc = "getUser"
    /\ reqs' = [reqs EXCEPT ![r] = [@ EXCEPT !.pc = "gotUser",
                                       !.row = getUserByUsername(reqs[r].username)]]
    /\ UNCHANGED <<users, userSeq, files, fileSeq, disk, now>>

LoginResponseLeaky(user, password) ==
    IF user = NoRow
    THEN [status |-> 404, error |-> "User not found"]
    ELSE IF user.password_hash # Sha256(password)
         THEN [status |-> 401, error |-> "Invalid credentials"]
         ELSE [status |-> 200, id |-> user.id, username |-> user.username,
               email |-> user.email]

LoginResponseRawCompare(user, password) ==
    IF user = NoRow
    THEN [status |-> 401, error |-> "Invalid credentials"]
    ELSE IF user.password_hash # password
         THEN [status |-> 401, error |-> "Invalid credentials"]
         ELSE [status |-> 200, id |-> user.id, username |-> user.username,
               email |-> user.email]

LoginResponse(user, password) ==
    IF user = NoRow
    THEN [status |-> 401, error |-> "Invalid credentials"]
    ELSE IF user.password_hash # Sha256(password)
         THEN [status |-> 401, error |-> "Invalid credentials"]
         ELSE [status |-> 200, id |-> user.id, username |-> user.username,
               email |-> user.email]

LoginRespond(r) ==
    /\ reqs[r].kind = "login" /\ reqs[r].pc = "gotUser"
    /\ reqs' = Finish(r, LoginResponse(reqs[r].row, reqs[r].password))
    /\ UNCHANGED <<users, userSeq, files, fileSeq, disk, now>>

(***************************************************************************)
(* Upload inputs: multipart file parts and the batches built from them.    *)
(***************************************************************************)
TxtPart == [originalname |-> "a.txt", mimetype |-> "text/plain", content |-> "hello"]
NotePart == [originalname |-> "n.txt", mimetype |-> "text/plain", content |-> "bye"]
PngPart == [originalname |-> "b.png", mimetype |-> "image/png", content |-> "bye"]
ExePart == [originalname |-> "c.exe", mimetype |-> "application/x-msdownload",
            content |-> "bye"]
FakeTxtPart == [originalname |-> "d.txt", mimetype |-> "application/x-msdownload",
                content |-> "hello"]

Batches ==
    { <<>>, <<TxtPart>>, <<NotePart, PngPart>>, <<TxtPart, ExePart>>,
      <<FakeTxtPart, TxtPart>>, <<TxtPart, PngPart, TxtPart>> }

\* req.body.userId: 0 is an absent field, 1 and 2 are ids a client may send
UserIds == {0, 1, 2}

\* the upload requests of the model: every batch for user 1, and one file
\* without a user id and for a user id that is in no row
UploadBodies ==
    {[userId |-> 1, parts |-> b] : b \in Batches}
    \cup {[userId |-> u, parts |-> <<TxtPart>>] : u \in {0, 2}}

\* config.maxFiles (upload.maxFiles of the properties file)
maxFiles == 2

\* path.extname(file.originalname)
extname(originalname) ==
    CASE originalname = "a.txt" -> ".txt"
      [] originalname = "n.txt" -> ".txt"
      [] originalname = "b.png" -> ".png"
      [] originalname = "c.exe" -> ".exe"
      [] originalname = "d.txt" -> ".txt"
      [] OTHER -> ""

allowedExtensions ==
    {".jpeg", ".jpg", ".png", ".gif", ".pdf", ".txt", ".doc", ".docx"}

allowedMimetypes ==
    {"image/jpeg", "image/jpg", "image/png", "image/gif", "application/pdf",
     "application/msword",
     "application/vnd.openxmlformats-officedocument.wordprocessingml.document",
     "text/plain"}

\* multer's fileFilter option: accept the part iff extension and MIME type
\* are both on their allow-list
fileFilterExtensionOnly(file) ==
    extname(file.originalname) \in allowedExtensions

fileFilter(file) ==
    /\ extname(file.originalname) \in allowedExtensions
    /\ file.mimetype \in allowedMimetypes

\* crypto.createHash('md5').update(bytes).digest('hex'), tabulated on the
\* contents of the model (the real digests)
Md5None(content) == ""

Md5(content) ==
    CASE content = "hello" -> "5d41402abc4b2a76b9719d911017c592"
      [] content = "bye" -> "bfa99df33b137bc8fb5f5407d7e58da8"
      [] OTHER -> "d41d8cd98f00b204e9800998ecf8427e"

\* the number of bytes of a content
ByteLength(content) ==
    CASE content = "hello" -> 5
      [] content = "bye" -> 3
      [] OTHER -> 0

(***************************************************************************)
(* Content store: the files of config.uploadPath.                          *)
(***************************************************************************)
\* storage.filename: fieldname-Date.now()-random, with the original extension
StorageName(ts, rnd, ext) == [ts |-> ts, rnd |-> rnd, ext |-> ext]

\* fs.existsSync(path)
existsSync(name) == name \in DOMAIN disk

\* the directory after a file is written under `name` (an existing file of
\* that name is overwritten)
WriteFile(name, file) ==
    [n \in DOMAIN disk \cup {name} |-> IF n = name THEN file ELSE disk[n]]

\* the directory after fs.unlink of every name in `names`
KeepFiles(names) == disk

UnlinkFiles(names) == [n \in DOMAIN disk \ names |-> disk[n]]

(***************************************************************************)
(* Metadata store: table files.                                            *)
(***************************************************************************)
NextFileIdSame(seq) == seq

NextFileId(seq) == seq + 1

\* Database.createFile: the row its INSERT adds (uploaded_at defaults to
\* CURRENT_TIMESTAMP).  The schema's FOREIGN KEY on user_id is declared, but
\* Database.init never turns SQLite's foreign-key enforcement on, so the
\* INSERT does not look at table users.
createFile(userId, originalName, filename, filePath, fileSize, mimeType, fileHash) ==
    [id |-> NextFileId(fileSeq), user_id |-> userId, original_name |-> originalName,
     filename |-> filename, file_path |-> filePath, file_size |-> fileSize,
     mime_type |-> mimeType, file_hash |-> fileHash, uploaded_at |-> now]

\* SELECT * FROM files WHERE filename = ?  (db.get: the first matching row)
getFileByFilename(filename) ==
    LET rows == {f \in files : f.filename = filename}
    IN  IF rows = {} THEN NoRow
        ELSE CHOOSE f \in rows : \A g \in rows : f.id <= g.id

\* SELECT * FROM files WHERE user_id = ? ORDER BY uploaded_at DESC: every
\* order of the user's rows that is descending in uploaded_at (SQL leaves the
\* order of rows with equal uploaded_at open)
getFilesByUserId(userId) ==
    LET rows == {f \in files : f.user_id = userId}
        n == Cardinality(rows)
    IN  {s \in [1..n -> rows] :
            /\ \A i, j \in 1..n : i # j => s[i] # s[j]
            /\ \A i, j \in 1..n : i < j => s[i].uploaded_at >= s[j].uploaded_at}

(***************************************************************************)
(* POST /api/upload: multer's upload.array('files', maxFiles) middleware,  *)
(* then the route handler.                                                 *)
(***************************************************************************)
UploadReceive ==
    /\ CountKind({"upload"}) < MaxUploads
    /\ Len(reqs) < MaxRequests /\ Cardinality(InFlight) < MaxInFlight
    /\ \E body \in UploadBodies :
         reqs' = Append(reqs,
            [kind |-> "upload", after |-> Answered, pc |-> "multer", resp |-> NoResp,
             userId |-> body.userId, parts |-> body.parts,
             next |-> 1,            \* the part multer handles next
             reqFiles |-> <<>>,     \* req.files
             fileHash |-> "",       \* fileHash of the file being recorded
             uploadedFiles |-> <<>>,
             err |-> ""])
    /\ UNCHANGED <<users, userSeq, files, fileSeq, disk, now>>

\* multer takes the next file part: over the count limit or refused by
\* fileFilter it aborts the request, otherwise diskStorage writes the file
MulterFile(r) ==
    /\ reqs[r].kind = "upload" /\ reqs[r].pc = "multer"
    /\ reqs[r].next <= Len(reqs[r].parts)
    /\ LET k == reqs[r].next
           part == reqs[r].parts[k]
       IN  IF k > maxFiles
           THEN /\ reqs' = [reqs EXCEPT ![r] = [@ EXCEPT !.pc = "abort",
                                                   !.err = "Too many files"]]
                /\ disk' = disk
           ELSE IF ~fileFilter(part)
           THEN /\ reqs' = [reqs EXCEPT ![r] = [@ EXCEPT !.pc = "abort",
                               !.err = "Invalid file type. Only JPEG, PNG, GIF, PDF, TXT, DOC, DOCX are allowed."]]
                /\ disk' = disk
           ELSE \E rnd \in 0..MaxRandom :
                  LET name == StorageName(now, rnd, extname(part.originalname))
                  IN  /\ disk' = WriteFile(name, [content |-> part.content,
                                                  req |-> r, part |-> k])
                      /\ reqs' = [reqs EXCEPT ![r] = [@ EXCEPT
                            !.next = k + 1,
                            !.reqFiles = Append(@,
                                [originalname |-> part.originalname,
                                 mimetype |-> part.mimetype,
                                 filename |-> name,
                                 size |-> ByteLength(part.content)])]]
    /\ UNCHANGED <<users, userSeq, files, fileSeq, now>>

\* the response of the error-handling middleware
ErrorMiddlewareResponse == [status |-> 500, error |-> "Internal server error"]

\* multer's abort: the files it has written for the request are removed and
\* the error goes to the error-handling middleware
MulterAbort(r) ==
    /\ reqs[r].kind = "upload" /\ reqs[r].pc = "abort"
    /\ disk' = UnlinkFiles({reqs[r].reqFiles[i].filename : i \in 1..Len(reqs[r].reqFiles)})
    /\ reqs' = Finish(r, ErrorMiddlewareResponse)
    /\ UNCHANGED <<users, userSeq, files, fileSeq, now>>

\* multer is through with the body; the handler runs up to getUserById
UploadHandler(r) ==
    /\ reqs[r].kind = "upload" /\ reqs[r].pc = "multer"
    /\ reqs[r].next > Len(reqs[r].parts)
    /\ IF reqs[r].userId = 0
       THEN reqs' = Finish(r, [status |-> 400, error |-> "User ID is required"])
       ELSE reqs' = [reqs EXCEPT ![r] = [@ EXCEPT !.pc = "getUser"]]
    /\ UNCHANGED <<users, userSeq, files, fileSeq, disk, now>>

\* the handler's catch block: one error for the request, whatever the loop
\* had pushed to uploadedFiles
UploadFailurePartial(uploadedFiles) ==
    [status |-> 500, error |-> "File upload failed", files |-> uploadedFiles]

UploadFailureResponse(uploadedFiles) ==
    [status |-> 500, error |-> "File upload failed"]

\* the head of the handler's loop for req.files[i]: fs.readFileSync and the
\* md5 of what it read, then createFile is issued; a missing file throws
\* into the handler's catch
HashFileIgnoreMissing(req, i) ==
    LET name == req.reqFiles[i].filename
    IN  IF existsSync(name)
        THEN [req EXCEPT !.pc = "createFile", !.fileHash = Md5(disk[name].content)]
        ELSE [req EXCEPT !.pc = "createFile", !.fileHash = Md5("")]

HashFile(req, i) ==
    LET name == req.reqFiles[i].filename
    IN  IF existsSync(name)
        THEN [req EXCEPT !.pc = "createFile", !.fileHash = Md5(disk[name].content)]
        ELSE Answer([req EXCEPT !.err = "ENOENT: no such file or directory"],
                    UploadFailureResponse(req.uploadedFiles))

NoFilesAsMissingUserId == [status |-> 400, error |-> "User ID is required"]

\* the handler's answer to a request without files
NoFilesResponse == [status |-> 400, error |-> "No files provided"]

\* getUserById answers; the handler goes on to the first file
UploadAuth(r) ==
    /\ reqs[r].kind = "upload" /\ reqs[r].pc = "getUser"
    /\ IF getUserById(reqs[r].userId) = NoRow
       THEN reqs' = Finish(r, [status |-> 401, error |-> "Invalid user"])
       ELSE IF Len(reqs[r].reqFiles) = 0
       THEN reqs' = Finish(r, NoFilesResponse)
       ELSE reqs' = [reqs EXCEPT ![r] = HashFile(@, 1)]
    /\ UNCHANGED <<users, userSeq, files, fileSeq, disk, now>>

\* Database.createFile inserts the row of the current file; the handler
\* pushes its descriptor and goes on to the next file or responds
UploadRecord(r) ==
    /\ reqs[r].kind = "upload" /\ reqs[r].pc = "createFile"
    /\ LET i == Len(reqs[r].uploadedFiles) + 1
           file == reqs[r].reqFiles[i]
           dbFile == createFile(reqs[r].userId, file.originalname, file.filename,
                                file.filename, file.size, file.mimetype,
                                reqs[r].fileHash)
           desc == [id |-> dbFile.id, originalName |-> file.originalname,
                    filename |-> file.filename, size |-> file.size,
                    mimetype |-> file.mimetype, hash |-> reqs[r].fileHash,
                    uploadedAt |-> now]
           pushed == [reqs[r] EXCEPT !.uploadedFiles = Append(@, desc)]
       IN  \* req, part: bookkeeping, the request and the part the row is for
           /\ files' = files \cup {dbFile @@ [req |-> r, part |-> i]}
           /\ fileSeq' = dbFile.id
           /\ IF i < Len(reqs[r].reqFiles)
              THEN reqs' = [reqs EXCEPT ![r] = HashFile(pushed, i + 1)]
              ELSE reqs' = [reqs EXCEPT ![r] =
                              Answer(pushed, [status |-> 201,
                                              message |-> "Files uploaded successfully",
                                              files |-> pushed.uploadedFiles])]
    /\ UNCHANGED <<users, userSeq, disk, now>>

\* Database.createFile rejects (the INSERT fails with a store error): the
\* handler's catch answers, no row is added
UploadRecordFail(r) ==
    /\ reqs[r].kind = "upload" /\ reqs[r].pc = "createFile"
    /\ reqs' = [reqs EXCEPT ![r] =
                    Answer([@ EXCEPT !.err = "SQLITE_ERROR"],
                           UploadFailureResponse(reqs[r].uploadedFiles))]
    /\ UNCHANGED <<users, userSeq, files, fileSeq, disk, now>>

(***************************************************************************)
(* GET /api/users/:id/files                                                *)
(***************************************************************************)
ListReceive ==
    /\ CountKind({"list"}) < MaxLists
    /\ Len(reqs) < MaxRequests /\ Cardinality(InFlight) < MaxInFlight
    /\ \E id \in UserIds \ {0} :
         reqs' = Append(reqs, [kind |-> "list", after |-> Answered, pc |-> "getUser",
                               resp |-> NoResp, userId |-> id])
    /\ UNCHANGED <<users, userSeq, files, fileSeq, disk, now>>

\* getUserById answers; getFilesByUserId is issued
ListAuth(r) ==
    /\ reqs[r].kind = "list" /\ reqs[r].pc = "getUser"
    /\ IF getUserById(reqs[r].userId) = NoRow
       THEN reqs' = Finish(r, [status |-> 404, error |-> "User not found"])
       ELSE reqs' = [reqs EXCEPT ![r] = [@ EXCEPT !.pc = "getFiles"]]
    /\ UNCHANGED <<users, userSeq, files, fileSeq, disk, now>>

\* files.map(file => ({...})) of the handler
FileList(rows) ==
    [i \in 1..Len(rows) |->
        [id |-> rows[i].id, originalName |-> rows[i].original_name,
         filename |-> rows[i].filename, size |-> rows[i].file_size,
         mimeType |-> rows[i].mime_type, hash |-> rows[i].file_hash,
         uploadedAt |-> rows[i].uploaded_at]]

\* getFilesByUserId answers; the handler responds with the mapped rows
ListFiles(r) ==
    /\ reqs[r].kind = "list" /\ reqs[r].pc = "getFiles"
    /\ \E rows \in getFilesByUserId(reqs[r].userId) :
         reqs' = Finish(r, [status |-> 200, files |-> FileList(rows)])
    /\ UNCHANGED <<users, userSeq, files, fileSeq, disk, now>>

(***************************************************************************)
(* GET /api/download/:filename                                             *)
(***************************************************************************)
UnknownName == StorageName(0, 0, ".pdf")

DownloadReceive ==
    /\ CountKind({"download"}) < MaxDownloads
    /\ Len(reqs) < MaxRequests /\ Cardinality(InFlight) < MaxInFlight
    /\ \E filename \in {f.filename : f \in files} \cup {UnknownName} :
         reqs' = Append(reqs, [kind |-> "download", after |-> Answered,
                               pc |-> "getFile", resp |-> NoResp,
                               filename |-> filename, file |-> NoRow,
                               exists |-> FALSE,   \* what fs.existsSync returned
                               headersSent |-> FALSE,   \* res.headersSent
                               err |-> "",         \* the stream's 'error' event
                               body |-> "",        \* the bytes piped to res
                               \* bookkeeping: the upload and part whose
                               \* bytes the read stream found on the disk
                               src |-> [req |-> 0, part |-> 0]])
    /\ UNCHANGED <<users, userSeq, files, fileSeq, disk, now>>

NoRecordResponse == [status |-> 404, error |-> "File not found"]

NoPhysicalFileSame == [status |-> 404, error |-> "File not found"]

NoPhysicalFileResponse == [status |-> 404, error |-> "Physical file not found on server"]

\* getFileByFilename answers; the handler checks the record and the file,
\* sets the headers and opens the read stream
DownloadLookup(r) ==
    /\ reqs[r].kind = "download" /\ reqs[r].pc = "getFile"
    /\ LET file == getFileByFilename(reqs[r].filename)
       IN  IF file = NoRow
           THEN reqs' = Finish(r, NoRecordResponse)
           ELSE IF ~existsSync(file.file_path)
           THEN reqs' = [reqs EXCEPT ![r] =
                            Answer([@ EXCEPT !.file = file], NoPhysicalFileResponse)]
           ELSE reqs' = [reqs EXCEPT ![r] = [@ EXCEPT !.pc = "stream", !.file = file,
                                                   !.exists = TRUE]]
    /\ UNCHANGED <<users, userSeq, files, fileSeq, disk, now>>

\* fileStream.pipe(res): the file's bytes are streamed under the headers set
\* by the handler; a stream error before any byte is answered with a 500
DownloadStream(r) ==
    /\ reqs[r].kind = "download" /\ reqs[r].pc = "stream"
    /\ LET file == reqs[r].file
       IN  IF existsSync(file.file_path)
           THEN reqs' = [reqs EXCEPT ![r] =
                    Answer([@ EXCEPT !.body = disk[file.file_path].content,
                                     !.headersSent = TRUE,
                                     !.src = [req |-> disk[file.file_path].req,
                                              part |-> disk[file.file_path].part]],
                           [status |-> 200,
                            contentDisposition |-> file.original_name,
                            contentType |-> file.mime_type,
                            contentLength |-> file.file_size])]
           ELSE reqs' = Finish(r, [status |-> 500, error |-> "File download failed"])
    /\ UNCHANGED <<users, userSeq, files, fileSeq, disk, now>>

\* fileStream emits 'error' (a read from the disk fails).  The handler logs
\* it; it answers 500 only while no header has been sent.  Once the first
\* chunk has been piped the headers are out, the handler does nothing more,
\* and pipe() does not end res when its source fails: the response stays
\* open (pc "open") with the status line and a part of the file sent.
DownloadStreamError(r) ==
    /\ reqs[r].kind = "download" /\ reqs[r].pc = "stream"
    /\ existsSync(reqs[r].file.file_path)
    /\ \E began \in BOOLEAN :
         reqs' = [reqs EXCEPT ![r] =
                    IF ~began
                    THEN Answer([@ EXCEPT !.err = "EIO"],
                                [status |-> 500, error |-> "File download failed"])
                    ELSE [@ EXCEPT !.err = "EIO", !.headersSent = TRUE,
                                   !.pc = "open"]]
    /\ UNCHANGED <<users, userSeq, files, fileSeq, disk, now>>

(***************************************************************************)
(* Database.createFile called on its own, with any user id.                *)
(***************************************************************************)
CreateFileCall ==
    /\ CountKind({"createFile"}) < MaxCreateFileCalls
    /\ \E userId \in UserIds \ {0}, part \in {TxtPart, NotePart, PngPart}, rnd \in 0..MaxRandom :
         LET name == StorageName(now, rnd, extname(part.originalname))
             dbFile == createFile(userId, part.originalname, name, name,
                                  ByteLength(part.content), part.mimetype,
                                  Md5(part.content))
         IN  /\ files' = files \cup {dbFile @@ [req |-> Len(reqs) + 1, part |-> 1]}
             /\ fileSeq' = dbFile.id
             \* db.run's callback got no err: the promise resolves with the row
             /\ reqs' = Append(reqs, [kind |-> "createFile", after |-> Answered,
                                      pc |-> "done", userId |-> userId, err |-> "",
                                      resp |-> [id |-> dbFile.id, userId |-> userId,
                                                filename |-> name]])
    /\ UNCHANGED <<users, userSeq, disk, now>>

(***************************************************************************)
(* The wall clock advances.                                                *)
(***************************************************************************)
Tick ==
    /\ now < MaxTime
    /\ now' = now + 1
    /\ UNCHANGED <<users, userSeq, files, fileSeq, disk, reqs>>

(***************************************************************************)
(* Specification of the account operations.                                *)
(***************************************************************************)
Init ==
    /\ users = {}
    /\ userSeq = 0
    /\ files = {}
    /\ fileSeq = 0
    /\ disk = <<>>
    /\ now = 0
    /\ reqs = <<>>

NextAccounts ==
    \/ RegisterReceive
    \/ LoginReceive
    \/ \E r \in 1..Len(reqs) : RegisterInsert(r)
    \/ \E r \in 1..Len(reqs) : RegisterRespond(r)
    \/ \E r \in 1..Len(reqs) : LoginLookup(r)
    \/ \E r \in 1..Len(reqs) : LoginRespond(r)

SpecAccounts == Init /\ [][NextAccounts]_vars

(***************************************************************************)
(* Specification of the file operations, from the state in which user 1    *)
(* ("alice") has registered.                                               *)
(***************************************************************************)
InitFiles ==
    /\ users = {[id |-> 1, username |-> "alice", email |-> "alice@x.com",
                 password_hash |-> Sha256("pw1")]}
    /\ userSeq = 1
    /\ files = {}
    /\ fileSeq = 0
    /\ disk = <<>>
    /\ now = 0
    /\ reqs = <<>>

NextFiles ==
    \/ UploadReceive
    \/ ListReceive
    \/ DownloadReceive
    \/ Tick
    \/ \E r \in 1..Len(reqs) : MulterFile(r)
    \/ \E r \in 1..Len(reqs) : MulterAbort(r)
    \/ \E r \in 1..Len(reqs) : UploadHandler(r)
    \/ \E r \in 1..Len(reqs) : UploadAuth(r)
    \/ \E r \in 1..Len(reqs) : UploadRecord(r)
    \/ \E r \in 1..Len(reqs) : UploadRecordFail(r)
    \/ \E r \in 1..Len(reqs) : ListAuth(r)
    \/ \E r \in 1..Len(reqs) : ListFiles(r)
    \/ \E r \in 1..Len(reqs) : DownloadLookup(r)
    \/ \E r \in 1..Len(reqs) : DownloadStream(r)
    \/ \E r \in 1..Len(reqs) : DownloadStreamError(r)

SpecFiles == InitFiles /\ [][NextFiles]_vars

(***************************************************************************)
(* Specification of concurrent uploads alone.                              *)
(***************************************************************************)
NextUploads ==
    \/ UploadReceive
    \/ Tick
    \/ \E r \in 1..Len(reqs) : MulterFile(r)
    \/ \E r \in 1..Len(reqs) : MulterAbort(r)
    \/ \E r \in 1..Len(reqs) : UploadHandler(r)
    \/ \E r \in 1..Len(reqs) : UploadAuth(r)
    \/ \E r \in 1..Len(reqs) : UploadRecord(r)
    \/ \E r \in 1..Len(reqs) : UploadRecordFail(r)

SpecUploads == InitFiles /\ [][NextUploads]_vars

(***************************************************************************)
(* Specification of the whole server, started on an empty database: the    *)
(* five routes, at most MaxRequests requests in all, within one tick of    *)
(* the clock.                                                              *)
(***************************************************************************)
NextServer ==
    \/ RegisterReceive
    \/ LoginReceive
    \/ UploadReceive
    \/ ListReceive
    \/ DownloadReceive
    \/ \E r \in 1..Len(reqs) : RegisterInsert(r)
    \/ \E r \in 1..Len(reqs) : RegisterRespond(r)
    \/ \E r \in 1..Len(reqs) : LoginLookup(r)
    \/ \E r \in 1..Len(reqs) : LoginRespond(r)
    \/ \E r \in 1..Len(reqs) : MulterFile(r)
    \/ \E r \in 1..Len(reqs) : MulterAbort(r)
    \/ \E r \in 1..Len(reqs) : UploadHandler(r)
    \/ \E r \in 1..Len(reqs) : UploadAuth(r)
    \/ \E r \in 1..Len(reqs) : UploadRecord(r)
    \/ \E r \in 1..Len(reqs) : UploadRecordFail(r)
    \/ \E r \in 1..Len(reqs) : ListAuth(r)
    \/ \E r \in 1..Len(reqs) : ListFiles(r)
    \/ \E r \in 1..Len(reqs) : DownloadLookup(r)
    \/ \E r \in 1..Len(reqs) : DownloadStream(r)
    \/ \E r \in 1..Len(reqs) : DownloadStreamError(r)

SpecServer == Init /\ [][NextServer]_vars

(***************************************************************************)
(* Specification of the metadata store's createFile, called directly.      *)
(***************************************************************************)
NextCreateFile ==
    \/ CreateFileCall
    \/ Tick

SpecCreateFile == InitFiles /\ [][NextCreateFile]_vars

(***************************************************************************)
(* Properties of the account operations.                                   *)
(***************************************************************************)
Registers == {r \in 1..Len(reqs) : reqs[r].kind = "register"}
Logins == {r \in 1..Len(reqs) : reqs[r].kind = "login"}
Registered == {r \in Registers : reqs[r].pc = "done" /\ reqs[r].resp.status = 201}
WellFormed(r) ==
    /\ reqs[r].username # "" /\ reqs[r].password # ""
    /\ reqs[r].kind = "register" => reqs[r].email # ""

ConflictResponse == [status |-> 400, error |-> "Username or email already exists"]
AuthErrorResponse == [status |-> 401, error |-> "Invalid credentials"]

\* some row holds the username or the email of registration r
Collides(r) ==
    \E u \in users : u.username = reqs[r].username \/ u.email = reqs[r].email

C5_Unique ==
    \A u, v \in users :
        (u.username = v.username \/ u.email = v.email) => u = v

C5_Conflict ==
    \A r \in Registers :
        \* a registration (all three fields given) that arrived after one with
        \* the same username or email had succeeded has the conflict answer
        (/\ WellFormed(r) /\ reqs[r].pc = "done"
         /\ \E q \in Registered \cap reqs[r].after :
               \/ reqs[q].username = reqs[r].username
               \/ reqs[q].email = reqs[r].email)
        => reqs[r].resp = ConflictResponse

C5_Step ==
    \A r \in Registers :
        (reqs[r].pc = "createUser" /\ reqs'[r].pc = "created" /\ Collides(r))
        => (users' = users /\ reqs'[r].err # "")

\* C5: a registration (with all three fields) whose username or email equals
\* that of an existing user row is answered with the 'already exists' conflict
\* error and leaves table users unchanged; in every reachable state, under
\* any interleaving of registrations, no two user rows share a username or an
\* email.
C5_DuplicateRejected ==
    /\ [](C5_Unique /\ C5_Conflict)
    /\ [][C5_Step]_vars

C5_Witness ==
    \E r \in Registers :
        /\ reqs[r].pc = "done" /\ reqs[r].resp = ConflictResponse
        /\ \E q \in Registered \cap reqs[r].after :
              reqs[q].username = reqs[r].username /\ reqs[q].email # reqs[r].email
        /\ Cardinality(users) = 1

\* C6: the ids returned by successful registrations are pairwise distinct, and
\* a registration that arrived after another one had been answered returns a
\* strictly greater id, under any interleaving of the inserts.
C6_IdsUniqueIncreasing ==
    \A r1, r2 \in Registered :
        /\ r1 # r2 => reqs[r1].resp.id # reqs[r2].resp.id
        /\ r1 \in reqs[r2].after => reqs[r2].resp.id > reqs[r1].resp.id

\* two registrations in flight together, answered in the reverse order of arrival
C6_Witness ==
    \E r1, r2 \in Registered :
        /\ r1 < r2 /\ r1 \notin reqs[r2].after /\ r2 \notin reqs[r1].after
        /\ reqs[r1].resp.id > reqs[r2].resp.id

\* C7: a login naming a username that does not exist and a login naming an
\* existing username with a wrong password (both with non-empty username and
\* password) get the same response, status and body.
C7_LoginIndistinguishable ==
    \A a, b \in Logins :
        (/\ reqs[a].pc = "done" /\ reqs[b].pc = "done"
         /\ WellFormed(a) /\ WellFormed(b)
         /\ reqs[a].row = NoRow
         /\ reqs[b].row # NoRow /\ reqs[b].row.password_hash # Sha256(reqs[b].password))
        => reqs[a].resp = reqs[b].resp

C7_Witness ==
    \E a, b \in Logins :
        /\ reqs[a].pc = "done" /\ reqs[b].pc = "done"
        /\ WellFormed(a) /\ WellFormed(b)
        /\ reqs[a].row = NoRow
        /\ reqs[b].row # NoRow /\ reqs[b].password = "wrong"
        /\ reqs[b].resp.status = 401

\* C8: once a registration of (username, email, password) has been answered
\* with id i, every later login with that username and the same password
\* succeeds with id i, and every later login with that username and another
\* (non-empty) password gets the auth error, whatever happened in between.
C8_LoginAfterRegister ==
    \A r \in Registered : \A l \in Logins :
        (/\ reqs[l].pc = "done" /\ r \in reqs[l].after
         /\ reqs[l].username = reqs[r].username /\ reqs[l].password # "")
        => IF reqs[l].password = reqs[r].password
           THEN reqs[l].resp.status = 200 /\ reqs[l].resp.id = reqs[r].resp.id
           ELSE reqs[l].resp = AuthErrorResponse

C8_Witness ==
    \E r \in Registered : \E l1, l2 \in Logins :
        /\ reqs[l1].pc = "done" /\ reqs[l2].pc = "done"
        /\ r \in reqs[l1].after /\ r \in reqs[l2].after
        /\ reqs[l1].username = reqs[r].username /\ reqs[l2].username = reqs[r].username
        /\ reqs[l1].password = reqs[r].password /\ reqs[l1].resp.status = 200
        /\ reqs[l2].password = "wrong" /\ reqs[l2].resp = AuthErrorResponse

(***************************************************************************)
(* Properties of the upload pipeline.                                      *)
(***************************************************************************)
Uploads == {r \in 1..Len(reqs) : reqs[r].kind = "upload"}
Done(r) == reqs[r].pc = "done"
ClientError(r) == reqs[r].resp.status \in 400..499
Rejected(r) == reqs[r].resp.status >= 400

\* the user id of upload r is absent or is the id of no user row
NoSuchUser(r) == reqs[r].userId = 0 \/ \A u \in users : u.id # reqs[r].userId

\* a part whose extension or MIME type is not among the allowed types
Disallowed(part) == part \in {ExePart, FakeTxtPart}
HasDisallowed(r) == \E k \in 1..Len(reqs[r].parts) : Disallowed(reqs[r].parts[k])

\* the stored files written for upload r, and the file rows inserted by it
StoredBy(r) == {n \in DOMAIN disk : disk[n].req = r}
RecordedBy(r) == {f \in files : f.req = r}

\* C1: an upload whose user id is missing or resolves to no user is rejected,
\* and at no point have any of its file bytes been written to the content
\* store (the authorization check precedes the first file write).
C1_NoWriteBeforeAuth ==
    \A r \in Uploads :
        NoSuchUser(r) =>
            /\ Len(reqs[r].reqFiles) = 0 /\ StoredBy(r) = {}
            /\ Done(r) => Rejected(r)

\* C2: an upload batch with a file of a disallowed extension/MIME
\* combination, first of the batch or not, is rejected as a whole: no file
\* row is ever inserted for it, and once it is answered no file of the batch
\* is in the content store.
C2_RejectAll ==
    \A r \in Uploads :
        HasDisallowed(r) =>
            /\ RecordedBy(r) = {}
            /\ Done(r) => (Rejected(r) /\ StoredBy(r) = {})

\* the batch whose second file is refused, answered after its first file had
\* been written
C2_Witness ==
    \E r \in Uploads :
        /\ reqs[r].parts = <<TxtPart, ExePart>> /\ Done(r)
        /\ Len(reqs[r].reqFiles) = 1 /\ StoredBy(r) = {}

\* C3: an upload with more files than config.maxFiles is rejected in full:
\* once it is answered, none of its files is in the content store and no
\* file row exists for it.
C3_TooManyFiles ==
    \A r \in Uploads :
        Len(reqs[r].parts) > maxFiles =>
            /\ RecordedBy(r) = {}
            /\ Done(r) => (Rejected(r) /\ StoredBy(r) = {})

C3_Witness ==
    \E r \in Uploads :
        /\ Len(reqs[r].parts) > maxFiles /\ Done(r)
        /\ Len(reqs[r].reqFiles) = maxFiles /\ StoredBy(r) = {}

\* C4: every validation failure of an upload (missing user id, disallowed
\* file type, empty batch) ends in a client-error response, never a server
\* error, and the request is rejected before any side effect on the content
\* store or the metadata store.
C4_ValidationClientError ==
    \A r \in Uploads :
        (reqs[r].userId = 0 \/ HasDisallowed(r) \/ reqs[r].parts = <<>>) =>
            /\ Len(reqs[r].reqFiles) = 0 /\ RecordedBy(r) = {}
            /\ Done(r) => ClientError(r)

(***************************************************************************)
(* Properties of retrieval.                                                *)
(***************************************************************************)
Downloads == {r \in 1..Len(reqs) : reqs[r].kind = "download"}
Lists == {r \in 1..Len(reqs) : reqs[r].kind = "list"}

\* C9: a download of a storage name that has a file row but no physical file
\* gets a not-found answer that differs from the not-found answer for a
\* storage name without a file row, and in neither case is content streamed.
C9_DistinctNotFound ==
    \A r \in Downloads :
        Done(r) =>
            /\ reqs[r].file = NoRow =>
                  /\ reqs[r].resp = [status |-> 404, error |-> "File not found"]
                  /\ reqs[r].body = ""
            /\ (reqs[r].file # NoRow /\ ~reqs[r].exists) =>
                  /\ reqs[r].resp.status = 404
                  /\ reqs[r].resp # [status |-> 404, error |-> "File not found"]
                  /\ reqs[r].body = ""

C9_Witness ==
    \E r \in Downloads :
        /\ Done(r) /\ reqs[r].file # NoRow /\ ~reqs[r].exists
        /\ reqs[r].filename \notin DOMAIN disk
        /\ \E f \in files : f.filename = reqs[r].filename

\* position of the file row with id `id` in the listing `list` (0: absent)
Position(list, id) ==
    IF \E i \in 1..Len(list) : list[i].id = id
    THEN CHOOSE i \in 1..Len(list) : list[i].id = id
    ELSE 0

\* C10: when the upload that recorded A was answered before the upload that
\* recorded B arrived, a later listing for their user contains both and
\* places B before A, however close in time the two uploads are.
C10_NewestFirst ==
    \A l \in Lists : \A a, b \in files :
        (/\ Done(l) /\ reqs[l].resp.status = 200
         /\ a.user_id = reqs[l].userId /\ b.user_id = reqs[l].userId
         /\ a.req \in reqs[b.req].after
         /\ a.req \in reqs[l].after /\ b.req \in reqs[l].after)
        => LET list == reqs[l].resp.files
           IN  /\ Position(list, a.id) > 0 /\ Position(list, b.id) > 0
               /\ Position(list, b.id) < Position(list, a.id)

(***************************************************************************)
(* Properties of storage names, recorded metadata and downloads.           *)
(***************************************************************************)
\* no file row shares its storage name with another file row
C11_RowsDistinct == \A f, g \in files : f.filename = g.filename => f = g

\* no step replaces the bytes stored under a name that is in use
C11_NoOverwrite == \A n \in DOMAIN disk \cap DOMAIN disk' : disk'[n] = disk[n]

\* C11: in every reachable state, also under interleaved uploads, no two
\* file rows carry the same storage name, and no accepted file is written
\* under a storage name that another stored file already uses.
C11_UniqueStorageNames == [](C11_RowsDistinct) /\ [][C11_NoOverwrite]_vars

\* the rows a step inserts: the recorded size is the byte count of the part
\* the client sent, the recorded hash is the hash of the bytes that are in
\* the content store under the row's storage name when it is inserted
C12_Step ==
    \A f \in files' \ files :
        /\ f.file_size = ByteLength(reqs[f.req].parts[f.part].content)
        /\ existsSync(f.file_path)
        /\ f.file_hash = Md5(disk[f.file_path].content)

\* C12: for every file row an upload creates, the recorded size is the number
\* of bytes of the uploaded file and the recorded hash is the hash of the
\* bytes read back from the row's storage location at the time of recording.
C12_SizeAndHash == [][C12_Step]_vars

\* download d, answered 200, is of the file that part k of upload u stored:
\* u had answered 201 with d's storage name in descriptor k before d arrived,
\* and the bytes the read stream found are the ones u wrote for that part
DownloadOf(d, u, k) ==
    /\ Done(d) /\ reqs[d].resp.status = 200
    /\ Done(u) /\ reqs[u].resp.status = 201 /\ u \in reqs[d].after
    /\ k \in 1..Len(reqs[u].resp.files)
    /\ reqs[u].resp.files[k].filename = reqs[d].filename
    /\ reqs[d].src = [req |-> u, part |-> k]

\* C13: after a successful upload of a file with original name n and content
\* c that returned storage name s, a download of s, the stored file being
\* unchanged, delivers exactly c with n as the suggested download name and
\* with the recorded size and MIME type (not those of another upload).
C13_DownloadRoundTrip ==
    \A d \in Downloads : \A u \in Uploads : \A k \in 1..maxFiles :
        DownloadOf(d, u, k) =>
            LET part == reqs[u].parts[k]
            IN  /\ reqs[d].body = part.content
                /\ reqs[d].resp.contentDisposition = part.originalname
                /\ reqs[d].resp.contentLength = ByteLength(part.content)
                /\ reqs[d].resp.contentType = part.mimetype

(***************************************************************************)
(* Properties of the metadata store.                                       *)
(***************************************************************************)
CreateFileCalls == {r \in 1..Len(reqs) : reqs[r].kind = "createFile"}

\* C14: createFile called with a userId that references no user row fails
\* with an error and creates no file row.
C14_ForeignKey ==
    \A r \in CreateFileCalls :
        (\A u \in users : u.id # reqs[r].userId) =>
            /\ reqs[r].err # ""
            /\ RecordedBy(r) = {}

(***************************************************************************)
(* Properties of failures.                                                 *)
(***************************************************************************)
\* the steps the server can take for download d
DownloadStep(d) == DownloadLookup(d) \/ DownloadStream(d) \/ DownloadStreamError(d)

\* C15: a download whose file stream failed with an I/O error is answered
\* with a failure status if no header had been sent, and has its connection
\* terminated if streaming had begun; in both cases it is terminal or the
\* server still has a step to take for it (it is never left open for good).
C15_StreamErrorTerminates ==
    \A d \in Downloads :
        reqs[d].err # "" =>
            /\ Done(d) \/ ENABLED DownloadStep(d)
            /\ (Done(d) /\ ~reqs[d].headersSent) => reqs[d].resp.status >= 500

\* the errors the handler's loop can catch: the read-back for the hash, the
\* insert of the row
HashError == "ENOENT: no such file or directory"
InsertError == "SQLITE_ERROR"

\* upload r passed admission and authorization and its loop failed
LoopFailed(r) == Done(r) /\ reqs[r].err \in {HashError, InsertError}

\* C16: when, in a batch that passed admission and authorization, the hash
\* step or the insert fails for a file, the request gets one overall failure
\* that holds no file descriptor, whatever files were processed before.
C16_OverallFailure ==
    \A r \in Uploads :
        LoopFailed(r) =>
            /\ Rejected(r)
            /\ "files" \notin DOMAIN reqs[r].resp
            /\ "message" \notin DOMAIN reqs[r].resp

\* the hash step failed on the second file, the first one already recorded
C16_Witness ==
    \E r \in Uploads :
        /\ LoopFailed(r) /\ reqs[r].err = HashError
        /\ Len(reqs[r].uploadedFiles) = 1

(***************************************************************************)
(* Properties of the order of the steps of an upload.                      *)
(***************************************************************************)
\* the row's file was stored by its request (whose body multer had consumed
\* to the end) and the row's hash is a digest, not the empty initial value
C17_Inv ==
    \A f \in files :
        LET r == f.req
        IN  /\ reqs[r].pc \notin {"multer", "abort"}
            /\ reqs[r].next > Len(reqs[r].parts)
            /\ f.part \in 1..Len(reqs[r].reqFiles)
            /\ reqs[r].reqFiles[f.part].filename = f.filename
            /\ f.file_hash # ""

\* a row is inserted by a request that stands after the hash step of that
\* file, with the hash that step computed
C17_Step ==
    \A f \in files' \ files :
        /\ reqs[f.req].pc = "createFile"
        /\ f.part = Len(reqs[f.req].uploadedFiles) + 1
        /\ f.file_hash = reqs[f.req].fileHash

\* C17: under any interleaving of concurrent uploads, each file is stored,
\* then hashed, then recorded: no file row is ever created for a file whose
\* bytes have not been written in full and whose hash has not been computed.
C17_StoredHashedRecorded == [](C17_Inv) /\ [][C17_Step]_vars

\* two uploads in flight together, neither answered before the other
\* arrived, have both recorded a file
C17_Witness ==
    \E f, g \in files :
        /\ f.req # g.req
        /\ f.req \notin reqs[g.req].after /\ g.req \notin reqs[f.req].after

\* upload r stands before the hash step of its file i in the unprimed state
\* of a step that takes it there
AtHashStep(r, i) ==
    \/ /\ i = 1 /\ reqs[r].pc = "getUser" /\ reqs'[r].pc # "getUser"
       /\ getUserById(reqs[r].userId) # NoRow
       /\ Len(reqs[r].reqFiles) >= 1
    \/ /\ i > 1 /\ reqs[r].pc = "createFile"
       /\ Len(reqs'[r].uploadedFiles) = i - 1
       /\ Len(reqs[r].uploadedFiles) = i - 2
       /\ i <= Len(reqs[r].reqFiles)

\* a hash step that finds no file to read ends the request with a server
\* error
C18_Step ==
    \A r \in Uploads : \A i \in 1..maxFiles :
        (AtHashStep(r, i) /\ ~existsSync(reqs[r].reqFiles[i].filename)) =>
            /\ reqs'[r].pc = "done"
            /\ reqs'[r].resp.status \in 500..599
            /\ \A f \in files' : f.req = r => f.part < i

\* an upload whose read-back failed has rows for the files before the
\* unreadable one only
C18_Inv ==
    \A r \in Uploads :
        (Done(r) /\ reqs[r].err = HashError) =>
            /\ reqs[r].resp.status \in 500..599
            /\ \A f \in RecordedBy(r) : f.part <= Len(reqs[r].uploadedFiles)

\* C18: when reading back a stored file for hashing fails, the upload fails
\* with a server error and no file row is created for that file or for any
\* file after it in the batch.
C18_ReadBackFailure == [](C18_Inv) /\ [][C18_Step]_vars

\* an upload failed on the read-back of its first file, which another
\* upload's cleanup had removed
C18_Witness ==
    \E r \in Uploads :
        /\ Done(r) /\ reqs[r].err = HashError
        /\ Len(reqs[r].reqFiles) >= 1 /\ RecordedBy(r) = {}

(***************************************************************************)
(* Properties of the file rows.                                            *)
(***************************************************************************)
\* C19: whenever an upload ends with a failure response, the metadata store
\* holds no file row created by that request (rows inserted for earlier files
\* of the batch do not survive a failure on a later file).
C19_NoRowsAfterFailure ==
    \A r \in Uploads :
        (Done(r) /\ Rejected(r)) => RecordedBy(r) = {}

\* C20: in every state reachable through registration, login, upload, list
\* and download, every file row's user_id is the id of a user row.
C20_NoOrphans ==
    \A f \in files : \E u \in users : u.id = f.user_id

\* a user registered while the server ran owns a file row, and an upload
\* for a user id nobody has was turned away
C20_Witness ==
    /\ \E f \in files : \E u \in users : u.id = f.user_id
    /\ \E r \in Uploads :
          /\ Done(r) /\ reqs[r].resp.status = 401
          /\ \A u \in users : u.id # reqs[r].userId

(***************************************************************************)
(* Properties of the answers to uploads.                                   *)
(***************************************************************************)
\* upload r carries no file and names an existing user
EmptyBatch(r) == Len(reqs[r].parts) = 0 /\ ~NoSuchUser(r)

\* C21: an upload of an existing user that carries zero files is rejected
\* with an error that differs from the error of a file-type validation
\* failure and from the missing-user-id error; it creates no file row and
\* stores no file.
C21_EmptyBatchDistinct ==
    \A r \in Uploads :
        EmptyBatch(r) =>
            /\ RecordedBy(r) = {} /\ StoredBy(r) = {}
            /\ Done(r) =>
                  /\ Rejected(r)
                  /\ reqs[r].resp # [status |-> 500, error |-> "Internal server error"]
                  /\ reqs[r].resp # [status |-> 400, error |-> "User ID is required"]
                  /\ \A q \in Uploads :
                        (Done(q) /\ (HasDisallowed(q) \/ reqs[q].userId = 0))
                            => reqs[q].resp # reqs[r].resp

\* an empty batch and a batch with a refused file type have both been
\* answered
C21_Witness ==
    \E r, q \in Uploads :
        /\ EmptyBatch(r) /\ Done(r)
        /\ HasDisallowed(q) /\ Done(q) /\ reqs[q].userId # 0

\* upload r was answered with full success
Succeeded(r) == Done(r) /\ reqs[r].resp.status = 201

\* C22: a fully successful upload with k files is answered with exactly k
\* descriptors in request order; each descriptor's id is the id of a distinct
\* file row newly created by this request and owned by the requesting user,
\* and the metadata store gained exactly k file rows by it.
C22_DescriptorsMatchRows ==
    \A r \in Uploads :
        Succeeded(r) =>
            LET k == Len(reqs[r].parts)
                descs == reqs[r].resp.files
            IN  /\ Len(descs) = k
                /\ Cardinality(RecordedBy(r)) = k
                /\ \A i \in 1..k :
                      /\ descs[i].originalName = reqs[r].parts[i].originalname
                      /\ descs[i].size = ByteLength(reqs[r].parts[i].content)
                      /\ descs[i].mimetype = reqs[r].parts[i].mimetype
                      /\ \E f \in RecordedBy(r) :
                            /\ f.id = descs[i].id /\ f.part = i
                            /\ f.user_id = reqs[r].userId
                            /\ f.filename = descs[i].filename
                            /\ \A g \in files : g.id = f.id => g = f
                /\ \A i, j \in 1..k : descs[i].id = descs[j].id => i = j

\* two uploads that were in flight together both succeeded, one of them
\* with two files
C22_Witness ==
    \E r, q \in Uploads :
        /\ r # q /\ Succeeded(r) /\ Succeeded(q)
        /\ Len(reqs[r].parts) = 2
        /\ q \notin reqs[r].after /\ r \notin reqs[q].after

====
